---- MODULE Spec2Model ----
(***************************************************************************)
(* Airline reservation system: the booking and cancellation transactions   *)
(* of backend.py over the flights / users / bookings / passengers /        *)
(* booking_flights tables, and the route search of backend.py.             *)
(*                                                                         *)
(* The datastore is modelled as the committed tables (db) plus one write   *)
(* buffer per open transaction (tx) and the row locks each transaction     *)
(* holds (held).  A locking read (SELECT ... FOR UPDATE) and an UPDATE     *)
(* take the row lock and wait while another transaction holds it; commit   *)
(* applies the buffer, rollback discards it, both release the locks.       *)
(* A row locked by a transaction is written by that transaction only, so   *)
(* seat changes are kept as deltas and added to the row at commit.         *)
(*                                                                         *)
(* A user is identified by the unique email of its users row; the          *)
(* passengers table is kept as the number of rows per booking.  The code   *)
(* puts no constraint on available_seats or on booking_flights, so the     *)
(* model has none either.                                                  *)
(***************************************************************************)
EXTENDS Integers, Sequences, FiniteSets, TLC

\* ---------------------------------------------------------------- bounds
MaxSeats == 1
MaxPax == 1
MaxCalls == 3
MaxRoutes == 3
MaxFlightRows == 3
MaxInserts == 3

\* ------------------------------------------------------------- constants
Procs == {"p1", "p2"}
\* flights 1 and 2 have a row in the flights table, flight id 3 has none;
\* a flight_ids list has up to two entries, in any order, repeats included
Flights == {1, 2}
FlightIds == Flights \cup {3}
FlightLists == {<<>>} \cup {<<a>> : a \in FlightIds} \cup {<<a, b>> : a \in FlightIds, b \in FlightIds}
Emails == {"u1"}
BookingIds == 1..MaxCalls
NoEmail == "none"
Airports == {"A", "B", "C"}
NoId == 0

VARIABLES
    db,             \* committed tables
    nextBid,        \* AUTO_INCREMENT counter of bookings.booking_id
    tx,             \* per connection: uncommitted writes of its transaction
    held,           \* per connection: row locks held by its transaction
    pc,             \* per connection: position in save_booking / cancel_booking_in_db
    args,           \* per connection: arguments of the call in progress
    idx,            \* per connection: loop index over flight_ids / fetched rows
    rows,           \* per connection: rows fetched by cancel_booking_in_db
    ret,            \* per connection: value returned by the last call
    failedAt,       \* per connection: "none", "connect", or whether the failed call had written ("clean"/"dirty")
    booking_cache,  \* module-level dict booking_cache
    ncalls,         \* number of calls started
    seats0,         \* flights.available_seats at start
    ded,            \* per booking: seats taken from each flight at commit
    req,            \* per caller: its first request (kept for the two-caller race)
    routes,         \* the (origin, destination) list given to build_graph
    graph,          \* the dict build_graph returns
    origin,         \* search argument
    destination,    \* search argument
    spc,            \* position of the search
    queue,          \* bfs_shortest_path: deque of paths
    visited,        \* bfs_shortest_path: visited set
    found,          \* the search's return value (<<>> is None)
    stack,          \* dfs_find_a_path: list of (current, path); find_cheapest_route: the calls of its nested dfs
    flights,        \* the flights table as the fare lookup reads it, in row order
    route,          \* argument of get_flight_details_for_route
    details,        \* return value of get_flight_details_for_route
    max_stops,      \* argument of find_cheapest_route
    cheapest,       \* return value of find_cheapest_route
    trie,           \* the Trie: its nodes, keyed by the characters leading to them
    inserted,       \* the words given to Trie.insert so far, in call order
    prefix,         \* argument of get_suggestions
    suggestions,    \* return value of get_suggestions
    search_results, \* st.session_state.search_results
    selected_route, \* st.session_state.selected_route
    selected_route_flight_ids, \* st.session_state.selected_route_flight_ids
    passengers,     \* len(st.session_state.passengers)
    bookings        \* the bookings created through Confirm Booking, in order

vars == <<db, nextBid, tx, held, pc, args, idx, rows, ret, failedAt,
          booking_cache, ncalls, seats0, ded, req,
          routes, graph, origin, destination, spc, queue, visited, found,
          stack, flights, route, details, max_stops, cheapest,
          trie, inserted, prefix, suggestions,
          search_results, selected_route, selected_route_flight_ids,
          passengers, bookings>>

bookingVars == <<db, nextBid, tx, held, pc, args, idx, rows, ret, failedAt,
                 booking_cache, ncalls, seats0, ded, req>>

searchVars == <<routes, graph, origin, destination, spc, queue, visited, found>>

fareVars == <<flights, route, details, max_stops, cheapest>>

trieVars == <<trie, inserted, prefix, suggestions>>

appVars == <<search_results, selected_route, selected_route_flight_ids,
             passengers, bookings>>

\* ------------------------------------------------------------ sequences
RECURSIVE SeqsUpTo(_, _)
SeqsUpTo(S, n) ==
    IF n = 0 THEN {<<>>}
    ELSE LET shorter == SeqsUpTo(S, n - 1)
         IN  shorter \cup {Append(s, x) : s \in {t \in shorter : Len(t) = n - 1}, x \in S}

RECURSIVE SumSeq(_)
SumSeq(s) == IF s = <<>> THEN 0 ELSE Head(s) + SumSeq(Tail(s))

RECURSIVE SelectRows(_, _)
SelectRows(s, b) ==
    IF s = <<>> THEN <<>>
    ELSE IF Head(s).booking_id = b THEN <<Head(s)>> \o SelectRows(Tail(s), b)
         ELSE SelectRows(Tail(s), b)

\* ----------------------------------------------------------- datastore
NoArgs == [op |-> "none"]
NoRet == [op |-> "none"]

EmptyTx ==
    [dseats |-> [f \in Flights |-> 0],
     user   |-> NoEmail,
     ins    |-> NoId,
     owner  |-> NoEmail,
     pax    |-> 0,
     upd    |-> NoId,
     bf     |-> <<>>]

EmptyDb(s) ==
    [seats  |-> s,
     users  |-> {},
     status |-> [b \in BookingIds |-> "NONE"],
     owner  |-> [b \in BookingIds |-> NoEmail],
     pax    |-> [b \in BookingIds |-> 0],
     bf     |-> <<>>]

\* mutant of Commit: the bookings row of a cancelled booking is deleted
CommitDeletesCancelled(d, t) ==
    [seats  |-> [f \in Flights |-> d.seats[f] + t.dseats[f]],
     users  |-> IF t.user = NoEmail THEN d.users ELSE d.users \cup {t.user},
     status |-> [b \in BookingIds |->
                    IF b = t.ins THEN "CONFIRMED"
                    ELSE IF b = t.upd THEN "NONE"
                    ELSE d.status[b]],
     owner  |-> [b \in BookingIds |-> IF b = t.ins THEN t.owner ELSE d.owner[b]],
     pax    |-> [b \in BookingIds |-> IF b = t.ins THEN t.pax ELSE d.pax[b]],
     bf     |-> d.bf \o t.bf]

\* conn.commit(): the transaction's writes become the committed tables
Commit(d, t) ==
    [seats  |-> [f \in Flights |-> d.seats[f] + t.dseats[f]],
     users  |-> IF t.user = NoEmail THEN d.users ELSE d.users \cup {t.user},
     status |-> [b \in BookingIds |->
                    IF b = t.ins THEN "CONFIRMED"
                    ELSE IF b = t.upd THEN "CANCELLED"
                    ELSE d.status[b]],
     owner  |-> [b \in BookingIds |-> IF b = t.ins THEN t.owner ELSE d.owner[b]],
     pax    |-> [b \in BookingIds |-> IF b = t.ins THEN t.pax ELSE d.pax[b]],
     bf     |-> d.bf \o t.bf]

\* mutant of Rollback: the uncommitted writes survive
RollbackKeepsWrites(d, t) == Commit(d, t)

\* conn.rollback(): the transaction's writes are discarded
Rollback(d, t) == d

FlightRow(f) == <<"flights", f>>
UserRow(e) == <<"users", e>>
BookingRow(b) == <<"bookings", b>>

\* mutant of CanLock: a plain SELECT instead of SELECT ... FOR UPDATE
CanLockNoWait(p, r) == TRUE

\* a row lock is granted unless another transaction holds it
CanLock(p, r) == \A q \in Procs \ {p} : r \notin held[q]

\* the statement p is about to execute needs this row lock (or none)
Wanted(p) ==
    CASE pc[p] = "sb_check"  ->
            IF args[p].fids[idx[p]] \in Flights
            THEN {FlightRow(args[p].fids[idx[p]])} ELSE {}
      [] pc[p] = "sb_user"   -> {UserRow(args[p].email)}
      [] pc[p] = "cb_update" -> {FlightRow(rows[p][idx[p]].flight_id)}
      [] pc[p] = "cb_status" -> {BookingRow(args[p].bid)}
      [] OTHER -> {}

\* p waits for a row lock that q holds
WaitsFor(p, q) == p # q /\ \E r \in Wanted(p) : r \in held[q]

\* -------------------------------------------------------------- inputs
\* the Confirm Booking handler passes at least one passenger
SaveInputs ==
    {[op |-> "save", email |-> e, npax |-> n, fids |-> fs] :
        e \in Emails, n \in 1..MaxPax, fs \in FlightLists}

\* the Cancel Booking button passes the id of a listed booking; was is the
\* booking's status when the call is made
CancelInputs ==
    {[op |-> "cancel", bid |-> b, email |-> e, was |-> db.status[b]] :
        b \in {x \in BookingIds : db.status[x] # "NONE"}, e \in Emails}

SaveOk(b) == [op |-> "save", id |-> b, msg |-> "Booking successful!"]
SaveFail(m) == [op |-> "save", id |-> NoId, msg |-> m]
CancelRet(ok) == [op |-> "cancel", ok |-> ok]

SavePcs == {"sb_check", "sb_update", "sb_user", "sb_booking",
            "sb_passengers", "sb_bf", "sb_commit"}
CancelPcs == {"cb_select", "cb_update", "cb_status", "cb_commit"}

\* ------------------------------------------------------------ Init
BookingInit(s) ==
    /\ seats0 = s
    /\ db = EmptyDb(s)
    /\ nextBid = 1
    /\ tx = [p \in Procs |-> EmptyTx]
    /\ held = [p \in Procs |-> {}]
    /\ pc = [p \in Procs |-> "idle"]
    /\ args = [p \in Procs |-> NoArgs]
    /\ idx = [p \in Procs |-> 1]
    /\ rows = [p \in Procs |-> <<>>]
    /\ ret = [p \in Procs |-> NoRet]
    /\ failedAt = [p \in Procs |-> "none"]
    /\ booking_cache = <<>>
    /\ ncalls = 0
    /\ ded = [b \in BookingIds |-> [f \in Flights |-> 0]]
    /\ req = [p \in Procs |-> NoArgs]

\* no search in progress
SearchIdle ==
    /\ routes = <<>>
    /\ graph = <<>>
    /\ origin = "A"
    /\ destination = "A"
    /\ spc = "off"
    /\ queue = <<>>
    /\ visited = {}
    /\ found = <<>>
    /\ stack = <<>>

\* class TrieNode: children (a dict, in insertion order), is_end_of_word, word
NoWord == <<"none">>
TrieNode == [children |-> <<>>, is_end_of_word |-> FALSE, word |-> NoWord]

\* Trie.__init__: the root node only; a node's key is the path of characters to it
EmptyTrie == (<<>> :> TrieNode)

\* no fare lookup and no airport suggestion in progress
\* def find_cheapest_route(graph, origin, destination, max_stops=3)
DefaultMaxStops == 3

NoDetails == [flights |-> <<>>, total |-> 0, ok |-> TRUE]
NoCheapest == [route |-> <<>>, price |-> 0, conn |-> TRUE]

FareIdle ==
    /\ flights = <<>>
    /\ route = <<>>
    /\ details = NoDetails
    /\ max_stops = DefaultMaxStops
    /\ cheapest = NoCheapest

TrieIdle ==
    /\ trie = EmptyTrie
    /\ inserted = <<>>
    /\ prefix = <<>>
    /\ suggestions = <<>>

\* the session defaults of the app: no search results, nothing selected, no
\* passenger entered; no booking made through the app yet
NoResults == [direct |-> <<>>, connecting |-> <<>>]

AppIdle ==
    /\ search_results = NoResults
    /\ selected_route = <<>>
    /\ selected_route_flight_ids = <<>>
    /\ passengers = 0
    /\ bookings = <<>>

\* every flight starts with MaxSeats seats
Init == BookingInit([f \in Flights |-> MaxSeats]) /\ SearchIdle /\ FareIdle /\ TrieIdle /\ AppIdle

\* the flights start with any seat counts
InitRace ==
    /\ \E s \in [Flights -> 0..MaxSeats] : BookingInit(s)
    /\ SearchIdle /\ FareIdle /\ TrieIdle /\ AppIdle

\* the call returns r: the connection is closed, its locks are gone
Return(p, r, at) ==
    /\ pc' = [pc EXCEPT ![p] = "idle"]
    /\ args' = [args EXCEPT ![p] = NoArgs]
    /\ tx' = [tx EXCEPT ![p] = EmptyTx]
    /\ held' = [held EXCEPT ![p] = {}]
    /\ idx' = [idx EXCEPT ![p] = 1]
    /\ rows' = [rows EXCEPT ![p] = <<>>]
    /\ ret' = [ret EXCEPT ![p] = r]
    /\ failedAt' = [failedAt EXCEPT ![p] = at]

\* ------------------------------------------------------- save_booking
\* mutant of SeatsOk: compares with 0, not with the number of passengers
SeatsOkNotNegative(r, num_pax) == ~(r < 0)

\* the seat check of save_booking: not (r[0] < num_pax)
SeatsOk(r, num_pax) == ~(r < num_pax)

\* get_db_connection() succeeded, start_transaction()
SaveBegin(p) ==
    /\ pc[p] = "idle"
    /\ ncalls < MaxCalls
    /\ \E a \in SaveInputs :
        /\ args' = [args EXCEPT ![p] = a]
        /\ pc' = [pc EXCEPT ![p] = IF Len(a.fids) > 0 THEN "sb_check" ELSE "sb_user"]
    /\ idx' = [idx EXCEPT ![p] = 1]
    /\ ret' = [ret EXCEPT ![p] = NoRet]
    /\ failedAt' = [failedAt EXCEPT ![p] = "none"]
    /\ ncalls' = ncalls + 1
    /\ UNCHANGED <<db, nextBid, tx, held, rows, booking_cache, seats0, ded>>
    /\ UNCHANGED searchVars
    /\ UNCHANGED <<stack, fareVars, trieVars, appVars>>

SaveStart(p) == SaveBegin(p) /\ UNCHANGED req

\* get_db_connection() returned None
SaveConnFail(p) ==
    /\ pc[p] = "idle"
    /\ ncalls < MaxCalls
    /\ Return(p, SaveFail("DB failed"), "connect")
    /\ ncalls' = ncalls + 1
    /\ UNCHANGED <<db, nextBid, booking_cache, seats0, ded, req, routes, graph, origin,
                   destination, spc, queue, visited, found>>
    /\ UNCHANGED <<stack, fareVars, trieVars, appVars>>

\* SELECT available_seats FROM flights WHERE flight_id=fid FOR UPDATE, and the check
SaveCheck(p) ==
    /\ pc[p] = "sb_check"
    /\ LET fid == args[p].fids[idx[p]]
           n   == args[p].npax
       IN  IF fid \notin Flights
           THEN /\ db' = Rollback(db, tx[p])
                /\ Return(p, SaveFail("Not enough seats"), "none")
           ELSE /\ CanLock(p, FlightRow(fid))
                /\ IF ~SeatsOk(db.seats[fid], n)
                   THEN /\ db' = Rollback(db, tx[p])
                        /\ Return(p, SaveFail("Not enough seats"), "none")
                   ELSE /\ held' = [held EXCEPT ![p] = @ \cup {FlightRow(fid)}]
                        /\ IF idx[p] < Len(args[p].fids)
                           THEN /\ idx' = [idx EXCEPT ![p] = @ + 1]
                                /\ pc' = pc
                           ELSE /\ idx' = [idx EXCEPT ![p] = 1]
                                /\ pc' = [pc EXCEPT ![p] = "sb_update"]
                        /\ UNCHANGED <<db, tx, rows, ret, failedAt, args>>
    /\ UNCHANGED <<nextBid, booking_cache, ncalls, seats0, ded, req, routes, graph, origin,
                   destination, spc, queue, visited, found>>
    /\ UNCHANGED <<stack, fareVars, trieVars, appVars>>

\* UPDATE flights SET available_seats=available_seats-num_pax WHERE flight_id=fid
SaveUpdate(p) ==
    /\ pc[p] = "sb_update"
    /\ LET fid == args[p].fids[idx[p]]
       IN  tx' = [tx EXCEPT ![p].dseats[fid] = @ - args[p].npax]
    /\ IF idx[p] < Len(args[p].fids)
       THEN /\ idx' = [idx EXCEPT ![p] = @ + 1]
            /\ pc' = pc
       ELSE /\ idx' = [idx EXCEPT ![p] = 1]
            /\ pc' = [pc EXCEPT ![p] = "sb_user"]
    /\ UNCHANGED <<db, nextBid, held, args, rows, ret, failedAt,
                   booking_cache, ncalls, seats0, ded, req, routes, graph, origin,
                   destination, spc, queue, visited, found>>
    /\ UNCHANGED <<stack, fareVars, trieVars, appVars>>

\* INSERT INTO users ... ON DUPLICATE KEY UPDATE ...
SaveUser(p) ==
    /\ pc[p] = "sb_user"
    /\ CanLock(p, UserRow(args[p].email))
    /\ held' = [held EXCEPT ![p] = @ \cup {UserRow(args[p].email)}]
    /\ tx' = [tx EXCEPT ![p].user = args[p].email]
    /\ pc' = [pc EXCEPT ![p] = "sb_booking"]
    /\ UNCHANGED <<db, nextBid, args, idx, rows, ret, failedAt,
                   booking_cache, ncalls, seats0, ded, req, routes, graph, origin,
                   destination, spc, queue, visited, found>>
    /\ UNCHANGED <<stack, fareVars, trieVars, appVars>>

\* INSERT INTO bookings (...,'CONFIRMED',...); booking_id = cursor.lastrowid
SaveBooking(p) ==
    /\ pc[p] = "sb_booking"
    /\ tx' = [tx EXCEPT ![p].ins = nextBid, ![p].owner = args[p].email]
    /\ nextBid' = nextBid + 1
    /\ pc' = [pc EXCEPT ![p] = "sb_passengers"]
    /\ UNCHANGED <<db, held, args, idx, rows, ret, failedAt,
                   booking_cache, ncalls, seats0, ded, req, routes, graph, origin,
                   destination, spc, queue, visited, found>>
    /\ UNCHANGED <<stack, fareVars, trieVars, appVars>>

\* executemany INSERT INTO passengers, one row per passenger
SavePassengers(p) ==
    /\ pc[p] = "sb_passengers"
    /\ tx' = [tx EXCEPT ![p].pax = args[p].npax]
    /\ pc' = [pc EXCEPT ![p] = IF Len(args[p].fids) > 0 THEN "sb_bf" ELSE "sb_commit"]
    /\ UNCHANGED <<db, nextBid, held, args, idx, rows, ret, failedAt,
                   booking_cache, ncalls, seats0, ded, req, routes, graph, origin,
                   destination, spc, queue, visited, found>>
    /\ UNCHANGED <<stack, fareVars, trieVars, appVars>>

\* INSERT INTO booking_flights (booking_id,flight_id,num_passengers)
SaveBookingFlight(p) ==
    /\ pc[p] = "sb_bf"
    /\ tx' = [tx EXCEPT ![p].bf =
                Append(@, [booking_id |-> tx[p].ins,
                           flight_id |-> args[p].fids[idx[p]],
                           num_passengers |-> args[p].npax])]
    /\ IF idx[p] < Len(args[p].fids)
       THEN /\ idx' = [idx EXCEPT ![p] = @ + 1]
            /\ pc' = pc
       ELSE /\ idx' = [idx EXCEPT ![p] = 1]
            /\ pc' = [pc EXCEPT ![p] = "sb_commit"]
    /\ UNCHANGED <<db, nextBid, held, args, rows, ret, failedAt,
                   booking_cache, ncalls, seats0, ded, req, routes, graph, origin,
                   destination, spc, queue, visited, found>>
    /\ UNCHANGED <<stack, fareVars, trieVars, appVars>>

\* conn.commit(); return booking_id, "Booking successful!"
SaveCommit(p) ==
    /\ pc[p] = "sb_commit"
    /\ db' = Commit(db, tx[p])
    /\ ded' = [ded EXCEPT ![tx[p].ins] = [f \in Flights |-> 0 - tx[p].dseats[f]]]
    /\ Return(p, SaveOk(tx[p].ins), "none")
    /\ UNCHANGED <<nextBid, booking_cache, ncalls, seats0, req, routes, graph, origin,
                   destination, spc, queue, visited, found>>
    /\ UNCHANGED <<stack, fareVars, trieVars, appVars>>

\* a statement or the commit raises mysql.connector.Error: rollback, return None
SaveError(p) ==
    /\ pc[p] \in SavePcs
    /\ db' = Rollback(db, tx[p])
    /\ Return(p, SaveFail("DB Error"), IF tx[p] = EmptyTx THEN "clean" ELSE "dirty")
    /\ UNCHANGED <<nextBid, booking_cache, ncalls, seats0, ded, req, routes, graph, origin,
                   destination, spc, queue, visited, found>>
    /\ UNCHANGED <<stack, fareVars, trieVars, appVars>>

\* ----------------------------------------------- cancel_booking_in_db
\* mutant of CreditSeats: the seats are taken again instead of given back
CreditSubtracts(seats, n) == seats - n

\* UPDATE flights SET available_seats=available_seats+n
CreditSeats(seats, n) == seats + n

\* del booking_cache[user_email] when present
CacheInvalidate(c, e) == [k \in (DOMAIN c) \ {e} |-> c[k]]

\* get_db_connection() succeeded, start_transaction()
CancelStart(p) ==
    /\ pc[p] = "idle"
    /\ ncalls < MaxCalls
    /\ \E a \in CancelInputs : args' = [args EXCEPT ![p] = a]
    /\ pc' = [pc EXCEPT ![p] = "cb_select"]
    /\ idx' = [idx EXCEPT ![p] = 1]
    /\ ret' = [ret EXCEPT ![p] = NoRet]
    /\ failedAt' = [failedAt EXCEPT ![p] = "none"]
    /\ ncalls' = ncalls + 1
    /\ UNCHANGED <<db, nextBid, tx, held, rows, booking_cache, seats0, ded, req, routes, graph, origin,
                   destination, spc, queue, visited, found>>
    /\ UNCHANGED <<stack, fareVars, trieVars, appVars>>

\* get_db_connection() returned None
CancelConnFail(p) ==
    /\ pc[p] = "idle"
    /\ ncalls < MaxCalls
    /\ Return(p, CancelRet(FALSE), "connect")
    /\ ncalls' = ncalls + 1
    /\ UNCHANGED <<db, nextBid, booking_cache, seats0, ded, req, routes, graph, origin,
                   destination, spc, queue, visited, found>>
    /\ UNCHANGED <<stack, fareVars, trieVars, appVars>>

\* SELECT flight_id,num_passengers FROM booking_flights WHERE booking_id=...
CancelSelect(p) ==
    /\ pc[p] = "cb_select"
    /\ LET rs == SelectRows(db.bf, args[p].bid)
       IN  /\ rows' = [rows EXCEPT ![p] = rs]
           /\ pc' = [pc EXCEPT ![p] = IF Len(rs) > 0 THEN "cb_update" ELSE "cb_status"]
    /\ UNCHANGED <<db, nextBid, tx, held, args, idx, ret, failedAt,
                   booking_cache, ncalls, seats0, ded, req, routes, graph, origin,
                   destination, spc, queue, visited, found>>
    /\ UNCHANGED <<stack, fareVars, trieVars, appVars>>

\* UPDATE flights SET available_seats=available_seats+n WHERE flight_id=fid
CancelUpdate(p) ==
    /\ pc[p] = "cb_update"
    /\ LET fid == rows[p][idx[p]].flight_id
           n   == rows[p][idx[p]].num_passengers
       IN  /\ CanLock(p, FlightRow(fid))
           /\ held' = [held EXCEPT ![p] = @ \cup {FlightRow(fid)}]
           /\ tx' = [tx EXCEPT ![p].dseats[fid] = CreditSeats(@, n)]
    /\ IF idx[p] < Len(rows[p])
       THEN /\ idx' = [idx EXCEPT ![p] = @ + 1]
            /\ pc' = pc
       ELSE /\ idx' = [idx EXCEPT ![p] = 1]
            /\ pc' = [pc EXCEPT ![p] = "cb_status"]
    /\ UNCHANGED <<db, nextBid, args, rows, ret, failedAt,
                   booking_cache, ncalls, seats0, ded, req, routes, graph, origin,
                   destination, spc, queue, visited, found>>
    /\ UNCHANGED <<stack, fareVars, trieVars, appVars>>

\* UPDATE bookings SET status='CANCELLED' WHERE booking_id=...
CancelStatus(p) ==
    /\ pc[p] = "cb_status"
    /\ LET b == args[p].bid
       IN  /\ CanLock(p, BookingRow(b))
           /\ held' = [held EXCEPT ![p] = @ \cup {BookingRow(b)}]
           /\ tx' = [tx EXCEPT ![p].upd = b]
    /\ pc' = [pc EXCEPT ![p] = "cb_commit"]
    /\ UNCHANGED <<db, nextBid, args, idx, rows, ret, failedAt,
                   booking_cache, ncalls, seats0, ded, req, routes, graph, origin,
                   destination, spc, queue, visited, found>>
    /\ UNCHANGED <<stack, fareVars, trieVars, appVars>>

\* conn.commit(); drop the cache entry of user_email; return True
CancelCommit(p) ==
    /\ pc[p] = "cb_commit"
    /\ db' = Commit(db, tx[p])
    /\ booking_cache' = CacheInvalidate(booking_cache, args[p].email)
    /\ Return(p, CancelRet(TRUE), "none")
    /\ UNCHANGED <<nextBid, ncalls, seats0, ded, req, routes, graph, origin,
                   destination, spc, queue, visited, found>>
    /\ UNCHANGED <<stack, fareVars, trieVars, appVars>>

\* a statement or the commit raises: rollback, return False
CancelError(p) ==
    /\ pc[p] \in CancelPcs
    /\ db' = Rollback(db, tx[p])
    /\ Return(p, CancelRet(FALSE), IF tx[p] = EmptyTx THEN "clean" ELSE "dirty")
    /\ UNCHANGED <<nextBid, booking_cache, ncalls, seats0, ded, req, routes, graph, origin,
                   destination, spc, queue, visited, found>>
    /\ UNCHANGED <<stack, fareVars, trieVars, appVars>>

\* ------------------------------------------------------ specifications
SaveStep(p) ==
    \/ SaveCheck(p)
    \/ SaveUpdate(p)
    \/ SaveUser(p)
    \/ SaveBooking(p)
    \/ SavePassengers(p)
    \/ SaveBookingFlight(p)
    \/ SaveCommit(p)

CancelStep(p) ==
    \/ CancelSelect(p)
    \/ CancelUpdate(p)
    \/ CancelStatus(p)
    \/ CancelCommit(p)

\* two callers, any calls in any interleaving, the datastore may fail at
\* any statement
Next ==
    \E p \in Procs :
        \/ SaveStart(p)
        \/ SaveConnFail(p)
        \/ SaveStep(p)
        \/ SaveError(p)
        \/ CancelStart(p)
        \/ CancelConnFail(p)
        \/ CancelStep(p)
        \/ CancelError(p)

Spec == Init /\ [][Next]_vars

\* two callers, each issuing one save_booking, on a datastore that does not fail
RaceStart(p) ==
    /\ req[p] = NoArgs
    /\ SaveBegin(p)
    /\ req' = [req EXCEPT ![p] = args'[p]]

NextRace == \E p \in Procs : RaceStart(p) \/ SaveStep(p)

SpecRace == InitRace /\ [][NextRace]_vars

\* save_booking called with any passenger list, the empty one included
DirectSaveInputs ==
    {[op |-> "save", email |-> e, npax |-> n, fids |-> fs] :
        e \in Emails, n \in 0..MaxPax, fs \in FlightLists}

DirectSaveStart(p) ==
    /\ pc[p] = "idle"
    /\ ncalls < MaxCalls
    /\ \E a \in DirectSaveInputs :
        /\ args' = [args EXCEPT ![p] = a]
        /\ pc' = [pc EXCEPT ![p] = IF Len(a.fids) > 0 THEN "sb_check" ELSE "sb_user"]
    /\ idx' = [idx EXCEPT ![p] = 1]
    /\ ret' = [ret EXCEPT ![p] = NoRet]
    /\ failedAt' = [failedAt EXCEPT ![p] = "none"]
    /\ ncalls' = ncalls + 1
    /\ UNCHANGED <<db, nextBid, tx, held, rows, booking_cache, seats0, ded, req>>
    /\ UNCHANGED searchVars
    /\ UNCHANGED <<stack, fareVars, trieVars, appVars>>

NextDirect == \E p \in Procs : DirectSaveStart(p) \/ SaveStep(p)

SpecDirect == Init /\ [][NextDirect]_vars

\* ------------------------------------------- get_user_bookings_from_db
\* the emails typed into the My Bookings lookup field: u1 has a booking,
\* u2 has none
LookupEmails == {"u1", "u2"}

\* the request a, numbered by its position among the calls made
Called(a) == [call |-> ncalls + 1] @@ a

GetRet(list, status) == [op |-> "get", list |-> list, status |-> status]

\* the bookings of ids b..MaxCalls that the query returns for email, in
\* booking_id order: bookings JOIN users JOIN passengers WHERE u.email = email
RECURSIVE BookingsFrom(_, _, _)
BookingsFrom(d, email, b) ==
    IF b > MaxCalls THEN <<>>
    ELSE IF d.status[b] # "NONE" /\ d.owner[b] = email /\ d.pax[b] > 0
         THEN <<[booking_id |-> b, status |-> d.status[b], passengers |-> d.pax[b]]>>
                  \o BookingsFrom(d, email, b + 1)
         ELSE BookingsFrom(d, email, b + 1)

\* out = list(book.values())
UserBookings(d, email) == BookingsFrom(d, email, 1)

\* booking_cache[email] = out
CacheStore(c, e, out) == [k \in (DOMAIN c) \cup {e} |-> IF k = e THEN out ELSE c[k]]

\* email in booking_cache: return booking_cache[email], "Cache"
GetCached(p) ==
    /\ pc[p] = "idle"
    /\ ncalls < MaxCalls
    /\ \E e \in LookupEmails :
        /\ e \in DOMAIN booking_cache
        /\ Return(p, GetRet(booking_cache[e], "Cache"), "none")
        /\ req' = [req EXCEPT ![p] = Called([op |-> "get", email |-> e])]
    /\ ncalls' = ncalls + 1
    /\ UNCHANGED <<db, nextBid, booking_cache, seats0, ded>>
    /\ UNCHANGED searchVars
    /\ UNCHANGED <<stack, fareVars, trieVars, appVars>>

\* email not in booking_cache and get_db_connection() returned None
GetConnFail(p) ==
    /\ pc[p] = "idle"
    /\ ncalls < MaxCalls
    /\ \E e \in LookupEmails :
        /\ e \notin DOMAIN booking_cache
        /\ Return(p, GetRet(<<>>, "Error"), "connect")
        /\ req' = [req EXCEPT ![p] = Called([op |-> "get", email |-> e])]
    /\ ncalls' = ncalls + 1
    /\ UNCHANGED <<db, nextBid, booking_cache, seats0, ded>>
    /\ UNCHANGED searchVars
    /\ UNCHANGED <<stack, fareVars, trieVars, appVars>>

\* email not in booking_cache and get_db_connection() succeeded
GetMiss(p) ==
    /\ pc[p] = "idle"
    /\ ncalls < MaxCalls
    /\ \E e \in LookupEmails :
        /\ e \notin DOMAIN booking_cache
        /\ args' = [args EXCEPT ![p] = [op |-> "get", email |-> e]]
        /\ req' = [req EXCEPT ![p] = Called([op |-> "get", email |-> e])]
    /\ pc' = [pc EXCEPT ![p] = "gb_query"]
    /\ idx' = [idx EXCEPT ![p] = 1]
    /\ ret' = [ret EXCEPT ![p] = NoRet]
    /\ failedAt' = [failedAt EXCEPT ![p] = "none"]
    /\ ncalls' = ncalls + 1
    /\ UNCHANGED <<db, nextBid, tx, held, rows, booking_cache, seats0, ded>>
    /\ UNCHANGED searchVars
    /\ UNCHANGED <<stack, fareVars, trieVars, appVars>>

\* df = pd.read_sql(q, ...); conn.close(); if df.empty: return [], "None";
\* otherwise the rows are grouped by booking into out
GetQuery(p) ==
    /\ pc[p] = "gb_query"
    /\ LET out == UserBookings(db, args[p].email)
       IN  IF out = <<>>
           THEN Return(p, GetRet(<<>>, "None"), "none")
           ELSE /\ rows' = [rows EXCEPT ![p] = out]
                /\ pc' = [pc EXCEPT ![p] = "gb_store"]
                /\ UNCHANGED <<args, tx, held, idx, ret, failedAt>>
    /\ UNCHANGED <<db, nextBid, booking_cache, ncalls, seats0, ded, req>>
    /\ UNCHANGED searchVars
    /\ UNCHANGED <<stack, fareVars, trieVars, appVars>>

\* booking_cache[email] = out; return out, "DB"
GetStore(p) ==
    /\ pc[p] = "gb_store"
    /\ booking_cache' = CacheStore(booking_cache, args[p].email, rows[p])
    /\ Return(p, GetRet(rows[p], "DB"), "none")
    /\ UNCHANGED <<db, nextBid, ncalls, seats0, ded, req>>
    /\ UNCHANGED searchVars
    /\ UNCHANGED <<stack, fareVars, trieVars, appVars>>

\* the Cancel Booking button on a listed booking: the booking id comes from
\* the list on screen, user_email is whatever the lookup field holds
CacheCancelInputs ==
    {[op |-> "cancel", bid |-> b, email |-> e, was |-> db.status[b]] :
        b \in {x \in BookingIds : db.status[x] # "NONE"}, e \in LookupEmails}

CacheCancelStart(p) ==
    /\ pc[p] = "idle"
    /\ ncalls < MaxCalls
    /\ \E a \in CacheCancelInputs :
        /\ args' = [args EXCEPT ![p] = a]
        /\ req' = [req EXCEPT ![p] = Called(a)]
    /\ pc' = [pc EXCEPT ![p] = "cb_select"]
    /\ idx' = [idx EXCEPT ![p] = 1]
    /\ ret' = [ret EXCEPT ![p] = NoRet]
    /\ failedAt' = [failedAt EXCEPT ![p] = "none"]
    /\ ncalls' = ncalls + 1
    /\ UNCHANGED <<db, nextBid, tx, held, rows, booking_cache, seats0, ded>>
    /\ UNCHANGED searchVars
    /\ UNCHANGED <<stack, fareVars, trieVars, appVars>>

\* user u1 books one more seat, on flight 2
CacheSaveInput == [op |-> "save", email |-> "u1", npax |-> 1, fids |-> <<2>>]

CacheSaveStart(p) ==
    /\ pc[p] = "idle"
    /\ ncalls < MaxCalls
    /\ args' = [args EXCEPT ![p] = CacheSaveInput]
    /\ req' = [req EXCEPT ![p] = Called(CacheSaveInput)]
    /\ pc' = [pc EXCEPT ![p] = "sb_check"]
    /\ idx' = [idx EXCEPT ![p] = 1]
    /\ ret' = [ret EXCEPT ![p] = NoRet]
    /\ failedAt' = [failedAt EXCEPT ![p] = "none"]
    /\ ncalls' = ncalls + 1
    /\ UNCHANGED <<db, nextBid, tx, held, rows, booking_cache, seats0, ded>>
    /\ UNCHANGED searchVars
    /\ UNCHANGED <<stack, fareVars, trieVars, appVars>>

\* the state after user u1 booked one seat on flight 1 (booking 1)
InitCache ==
    /\ seats0 = [f \in Flights |-> MaxSeats]
    /\ db = [seats  |-> [f \in Flights |-> IF f = 1 THEN MaxSeats - 1 ELSE MaxSeats],
             users  |-> {"u1"},
             status |-> [b \in BookingIds |-> IF b = 1 THEN "CONFIRMED" ELSE "NONE"],
             owner  |-> [b \in BookingIds |-> IF b = 1 THEN "u1" ELSE NoEmail],
             pax    |-> [b \in BookingIds |-> IF b = 1 THEN 1 ELSE 0],
             bf     |-> <<[booking_id |-> 1, flight_id |-> 1, num_passengers |-> 1]>>]
    /\ nextBid = 2
    /\ tx = [p \in Procs |-> EmptyTx]
    /\ held = [p \in Procs |-> {}]
    /\ pc = [p \in Procs |-> "idle"]
    /\ args = [p \in Procs |-> NoArgs]
    /\ idx = [p \in Procs |-> 1]
    /\ rows = [p \in Procs |-> <<>>]
    /\ ret = [p \in Procs |-> NoRet]
    /\ failedAt = [p \in Procs |-> "none"]
    /\ booking_cache = <<>>
    /\ ncalls = 0
    /\ ded = [b \in BookingIds |->
                [f \in Flights |-> IF b = 1 /\ f = 1 THEN 1 ELSE 0]]
    /\ req = [p \in Procs |-> NoArgs]
    /\ SearchIdle /\ FareIdle /\ TrieIdle /\ AppIdle

\* two sessions looking up, cancelling and booking, on a datastore that
\* raises no error inside a transaction
NextCache ==
    \E p \in Procs :
        \/ GetCached(p)
        \/ GetConnFail(p)
        \/ GetMiss(p)
        \/ GetQuery(p)
        \/ GetStore(p)
        \/ CacheCancelStart(p)
        \/ CancelStep(p)
        \/ CacheSaveStart(p)
        \/ SaveStep(p)

SpecCache == InitCache /\ [][NextCache]_vars

\* -------------------------------------------------------- route search
None == <<>>

RoutePairs == Airports \X Airports

\* build_graph: a dict from origin to the list of its destinations, in input order
RECURSIVE BuildFrom(_, _)
BuildFrom(g, rs) ==
    IF rs = <<>> THEN g
    ELSE LET o  == Head(rs)[1]
             d  == Head(rs)[2]
             g1 == IF o \in DOMAIN g THEN g ELSE g @@ (o :> <<>>)
         IN  BuildFrom([g1 EXCEPT ![o] = Append(@, d)], Tail(rs))

build_graph(rs) == BuildFrom(<<>>, rs)

\* graph.get(node, [])
Neighbors(g, node) == IF node \in DOMAIN g THEN g[node] ELSE <<>>

\* the for loop of bfs_shortest_path over the neighbours of path[-1]:
\* returns the visited set and the queue after the loop
RECURSIVE BfsExpand(_, _, _, _)
BfsExpand(nbrs, vis, q, path) ==
    IF nbrs = <<>> THEN [visited |-> vis, queue |-> q]
    ELSE IF Head(nbrs) \notin vis
         THEN BfsExpand(Tail(nbrs), vis \cup {Head(nbrs)},
                        Append(q, Append(path, Head(nbrs))), path)
         ELSE BfsExpand(Tail(nbrs), vis, q, path)

\* the search is asked for two different airports and any route list
SearchInit ==
    /\ routes \in SeqsUpTo(RoutePairs, MaxRoutes)
    /\ origin \in Airports
    /\ destination \in Airports \ {origin}
    /\ graph = <<>>
    /\ spc = "start"
    /\ queue = <<>>
    /\ visited = {}
    /\ found = None
    /\ stack = <<>>

\* no booking activity
BookingIdle == BookingInit([f \in Flights |-> MaxSeats])

InitSearch == BookingIdle /\ SearchInit /\ FareIdle /\ TrieIdle /\ AppIdle

\* load_data: graph = build_graph(routes)
BuildGraph ==
    /\ spc = "start"
    /\ graph' = build_graph(routes)
    /\ spc' = "built"
    /\ UNCHANGED <<routes, origin, destination, queue, visited, found>>
    /\ UNCHANGED bookingVars
    /\ UNCHANGED <<stack, fareVars, trieVars, appVars>>

\* bfs_shortest_path up to the while loop
BfsStart ==
    /\ spc = "built"
    /\ IF origin \notin DOMAIN graph \/ destination \notin DOMAIN graph
       THEN /\ found' = None
            /\ spc' = "done"
            /\ UNCHANGED <<queue, visited>>
       ELSE /\ queue' = << <<origin>> >>
            /\ visited' = {origin}
            /\ spc' = "bfs"
            /\ UNCHANGED found
    /\ UNCHANGED <<routes, graph, origin, destination>>
    /\ UNCHANGED bookingVars
    /\ UNCHANGED <<stack, fareVars, trieVars, appVars>>

\* mutant of BfsStep: the path is read from the front of the queue but not
\* taken off it
BfsStepPeeks ==
    /\ spc = "bfs"
    /\ IF queue = <<>>
       THEN /\ found' = None
            /\ spc' = "done"
            /\ UNCHANGED <<queue, visited>>
       ELSE LET path == Head(queue)
                node == path[Len(path)]
            IN  IF node = destination
                THEN /\ found' = path
                     /\ spc' = "done"
                     /\ queue' = Tail(queue)
                     /\ UNCHANGED visited
                ELSE LET r == BfsExpand(Neighbors(graph, node), visited, queue, path)
                     IN  /\ queue' = r.queue
                         /\ visited' = r.visited
                         /\ UNCHANGED <<found, spc>>
    /\ UNCHANGED <<routes, graph, origin, destination>>
    /\ UNCHANGED bookingVars
    /\ UNCHANGED <<stack, fareVars, trieVars, appVars>>

\* one iteration of the while loop of bfs_shortest_path (or its exit)
BfsStep ==
    /\ spc = "bfs"
    /\ IF queue = <<>>
       THEN /\ found' = None
            /\ spc' = "done"
            /\ UNCHANGED <<queue, visited>>
       ELSE LET path == Head(queue)
                node == path[Len(path)]
            IN  IF node = destination
                THEN /\ found' = path
                     /\ spc' = "done"
                     /\ queue' = Tail(queue)
                     /\ UNCHANGED visited
                ELSE LET r == BfsExpand(Neighbors(graph, node), visited, Tail(queue), path)
                     IN  /\ queue' = r.queue
                         /\ visited' = r.visited
                         /\ UNCHANGED <<found, spc>>
    /\ UNCHANGED <<routes, graph, origin, destination>>
    /\ UNCHANGED bookingVars
    /\ UNCHANGED <<stack, fareVars, trieVars, appVars>>

NextSearch == BuildGraph \/ BfsStart \/ BfsStep

SpecSearch == InitSearch /\ [][NextSearch]_vars

\* ------------------------------------------------------ dfs_find_a_path
\* reversed(list)
RECURSIVE Reversed(_)
Reversed(s) == IF s = <<>> THEN <<>> ELSE Append(Reversed(Tail(s)), Head(s))

\* mutant of DfsPush: the pushed entry keeps the path of the popped one
RECURSIVE DfsPushStalePath(_, _, _, _)
DfsPushStalePath(nbrs, vis, st, path) ==
    IF nbrs = <<>> THEN st
    ELSE IF Head(nbrs) \notin vis
         THEN DfsPushStalePath(Tail(nbrs), vis, Append(st, [node |-> Head(nbrs), path |-> path]), path)
         ELSE DfsPushStalePath(Tail(nbrs), vis, st, path)

\* the for loop of dfs_find_a_path over the reversed neighbours of current:
\* returns the stack after the loop
RECURSIVE DfsPush(_, _, _, _)
DfsPush(nbrs, vis, st, path) ==
    IF nbrs = <<>> THEN st
    ELSE IF Head(nbrs) \notin vis
         THEN DfsPush(Tail(nbrs), vis,
                      Append(st, [node |-> Head(nbrs), path |-> Append(path, Head(nbrs))]), path)
         ELSE DfsPush(Tail(nbrs), vis, st, path)

\* dfs_find_a_path up to the while loop
DfsStart ==
    /\ spc = "built"
    /\ IF origin \notin DOMAIN graph \/ destination \notin DOMAIN graph
       THEN /\ found' = None
            /\ spc' = "done"
            /\ UNCHANGED <<stack, visited>>
       ELSE /\ stack' = << [node |-> origin, path |-> <<origin>>] >>
            /\ visited' = {}
            /\ spc' = "dfs"
            /\ UNCHANGED found
    /\ UNCHANGED <<routes, graph, origin, destination, queue>>
    /\ UNCHANGED bookingVars
    /\ UNCHANGED <<fareVars, trieVars, appVars>>

\* one iteration of the while loop of dfs_find_a_path (or its exit)
DfsStep ==
    /\ spc = "dfs"
    /\ IF stack = <<>>
       THEN /\ found' = None
            /\ spc' = "done"
            /\ UNCHANGED <<stack, visited>>
       ELSE LET top     == stack[Len(stack)]
                current == top.node
                path    == top.path
                rest    == SubSeq(stack, 1, Len(stack) - 1)
            IN  IF current = destination
                THEN /\ found' = path
                     /\ spc' = "done"
                     /\ stack' = rest
                     /\ UNCHANGED visited
                ELSE /\ visited' = visited \cup {current}
                     /\ stack' = DfsPush(Reversed(Neighbors(graph, current)),
                                         visited \cup {current}, rest, path)
                     /\ UNCHANGED <<found, spc>>
    /\ UNCHANGED <<routes, graph, origin, destination, queue>>
    /\ UNCHANGED bookingVars
    /\ UNCHANGED <<fareVars, trieVars, appVars>>

NextDfs == BuildGraph \/ DfsStart \/ DfsStep

SpecDfs == InitSearch /\ [][NextDfs]_vars

\* -------------------------------------------------------- fare lookup
\* rows of the flights table: flights between two different airports, with
\* a price and a seat count that is zero or positive
Prices == {1, 2}
SeatCounts == {0, 1}
FareRows ==
    {[origin |-> o, destination |-> d, price |-> pr, available_seats |-> n] :
        o \in Airports, d \in Airports, pr \in Prices, n \in SeatCounts} \
    {r \in [origin : Airports, destination : Airports, price : Prices,
            available_seats : SeatCounts] : r.origin = r.destination}

\* the flights tables of up to n rows, in any row order
FareTables(n) == SeqsUpTo(FareRows, n)

\* df[(df['origin'] == o) & (df['destination'] == d)]
RECURSIVE LegRows(_, _, _)
LegRows(df, o, d) ==
    IF df = <<>> THEN <<>>
    ELSE IF Head(df).origin = o /\ Head(df).destination = d
         THEN <<Head(df)>> \o LegRows(Tail(df), o, d)
         ELSE LegRows(Tail(df), o, d)

\* SELECT * FROM flights WHERE (origin = r0 AND destination = r1) OR ...
RECURSIVE SelectLegs(_, _)
SelectLegs(tbl, r) ==
    IF tbl = <<>> THEN <<>>
    ELSE IF \E i \in 1..(Len(r) - 1) :
                Head(tbl).origin = r[i] /\ Head(tbl).destination = r[i + 1]
         THEN <<Head(tbl)>> \o SelectLegs(Tail(tbl), r)
         ELSE SelectLegs(Tail(tbl), r)

\* leg.iloc[0]
FirstRow(leg) == leg[1]

\* the second loop of get_flight_details_for_route, from leg i on
RECURSIVE ResolveLegs(_, _, _, _, _)
ResolveLegs(df, r, i, ordered, total) ==
    IF i > Len(r) - 1 THEN [flights |-> ordered, total |-> total, ok |-> TRUE]
    ELSE LET leg == LegRows(df, r[i], r[i + 1])
         IN  IF leg = <<>> \/ FirstRow(leg).available_seats = 0
             THEN [flights |-> ordered, total |-> total, ok |-> FALSE]
             ELSE ResolveLegs(df, r, i + 1, Append(ordered, FirstRow(leg)),
                              total + FirstRow(leg).price)

\* get_flight_details_for_route(route) on the flights table tbl; conn tells
\* whether get_db_connection() returned a connection
get_flight_details_for_route(tbl, r, conn) ==
    IF Len(r) < 2 THEN [flights |-> <<>>, total |-> 0, ok |-> TRUE]
    ELSE IF ~conn THEN [flights |-> <<>>, total |-> 0, ok |-> FALSE]
    ELSE LET df == SelectLegs(tbl, r)
         IN  IF Len(df) < Len(r) - 1
             THEN [flights |-> <<>>, total |-> 0, ok |-> FALSE]
             ELSE ResolveLegs(df, r, 1, <<>>, 0)

\* routes whose first airport is "A" and whose consecutive airports differ
ResolveRoutes ==
    {r \in SeqsUpTo(Airports, 3) :
        /\ Len(r) >= 2
        /\ r[1] = "A"
        /\ \A i \in 1..(Len(r) - 1) : r[i] # r[i + 1]}

\* a fare lookup for any route on any flights table
InitResolve ==
    /\ BookingIdle /\ SearchIdle /\ TrieIdle /\ AppIdle
    /\ flights \in FareTables(MaxFlightRows)
    /\ route \in ResolveRoutes
    /\ details = NoDetails
    /\ max_stops = DefaultMaxStops
    /\ cheapest = NoCheapest

\* get_flight_details_for_route(route) with a connection
ResolveRoute ==
    /\ spc = "off"
    /\ details' = get_flight_details_for_route(flights, route, TRUE)
    /\ spc' = "done"
    /\ UNCHANGED <<flights, route, max_stops, cheapest>>
    /\ UNCHANGED <<routes, graph, origin, destination, queue, visited, found, stack>>
    /\ UNCHANGED bookingVars
    /\ UNCHANGED <<trieVars, appVars>>

\* get_flight_details_for_route(route) when get_db_connection() returns None
ResolveConnFail ==
    /\ spc = "off"
    /\ details' = get_flight_details_for_route(flights, route, FALSE)
    /\ spc' = "down"
    /\ UNCHANGED <<flights, route, max_stops, cheapest>>
    /\ UNCHANGED <<routes, graph, origin, destination, queue, visited, found, stack>>
    /\ UNCHANGED bookingVars
    /\ UNCHANGED <<trieVars, appVars>>

NextResolve == ResolveRoute \/ ResolveConnFail

SpecResolve == InitResolve /\ [][NextResolve]_vars

\* ------------------------------------------------- find_cheapest_route
\* SELECT DISTINCT origin, destination FROM flights WHERE available_seats > 0
RECURSIVE DistinctRoutes(_, _)
DistinctRoutes(tbl, seen) ==
    IF tbl = <<>> THEN seen
    ELSE LET od == <<Head(tbl).origin, Head(tbl).destination>>
         IN  IF Head(tbl).available_seats > 0 /\ \A i \in 1..Len(seen) : seen[i] # od
             THEN DistinctRoutes(Tail(tbl), Append(seen, od))
             ELSE DistinctRoutes(Tail(tbl), seen)

fetch_all_routes_from_db(tbl) == DistinctRoutes(tbl, <<>>)

\* mutant of WithinStops: one more edge than max_stops is let through
WithinStopsPlusOne(path, ms) == ~(Len(path) - 2 > ms)

\* the hop bound of find_cheapest_route: not (len(path) - 1 > max_stops)
WithinStops(path, ms) == ~(Len(path) - 1 > ms)

\* best = {'route': None, 'price': float('inf')}; total < best['price']
NoBest == [route |-> None, price |-> 0]
Better(total, best) == best.route = None \/ total < best.price

\* the nested dfs(node, path) of find_cheapest_route, node = path[-1]:
\* CheapVisit is one call, CheapLoop its for loop; both return best
RECURSIVE CheapVisit(_, _, _, _, _, _, _)
RECURSIVE CheapLoop(_, _, _, _, _, _, _, _)
CheapVisit(g, tbl, dst, ms, conn, path, best) ==
    IF ~WithinStops(path, ms) THEN best
    ELSE IF path[Len(path)] = dst
         THEN LET d == get_flight_details_for_route(tbl, path, conn)
              IN  IF d.ok /\ Better(d.total, best)
                  THEN [route |-> path, price |-> d.total]
                  ELSE best
         ELSE CheapLoop(g, tbl, dst, ms, conn, Neighbors(g, path[Len(path)]), path, best)

CheapLoop(g, tbl, dst, ms, conn, nbrs, path, best) ==
    IF nbrs = <<>> THEN best
    ELSE IF \A i \in 1..Len(path) : path[i] # Head(nbrs)
         THEN CheapLoop(g, tbl, dst, ms, conn, Tail(nbrs), path,
                        CheapVisit(g, tbl, dst, ms, conn, Append(path, Head(nbrs)), best))
         ELSE CheapLoop(g, tbl, dst, ms, conn, Tail(nbrs), path, best)

find_cheapest_route(g, tbl, o, d, ms, conn) ==
    IF o \notin DOMAIN g \/ d \notin DOMAIN g THEN [route |-> None, price |-> 0]
    ELSE LET best == CheapVisit(g, tbl, d, ms, conn, <<o>>, NoBest)
         IN  IF best.route # None THEN best ELSE [route |-> None, price |-> 0]

\* the flights of the four-airport example: A->B 100, B->D 50, A->C 60, C->D 60
ExampleFlights ==
    << [origin |-> "A", destination |-> "B", price |-> 100, available_seats |-> 1],
       [origin |-> "B", destination |-> "D", price |-> 50, available_seats |-> 1],
       [origin |-> "A", destination |-> "C", price |-> 60, available_seats |-> 1],
       [origin |-> "C", destination |-> "D", price |-> 60, available_seats |-> 1] >>

StopsChoices == {0, 1, DefaultMaxStops}

\* a cheapest-route search from "A" to "B" on any flights table (the tables
\* are closed under renaming the airports), or the example
InitCheapest ==
    /\ BookingIdle /\ TrieIdle /\ AppIdle
    /\ routes = <<>> /\ graph = <<>> /\ queue = <<>> /\ visited = {}
    /\ found = None /\ stack = <<>>
    /\ spc = "start"
    /\ origin = "A"
    /\ \/ /\ flights \in FareTables(MaxFlightRows)
          /\ destination = "B"
          /\ max_stops \in StopsChoices
       \/ /\ flights = ExampleFlights
          /\ destination = "D"
          /\ max_stops = DefaultMaxStops
    /\ route = <<>>
    /\ details = NoDetails
    /\ cheapest = NoCheapest

\* load_data: routes = fetch_all_routes_from_db(); graph = build_graph(routes)
LoadData ==
    /\ spc = "start"
    /\ routes' = fetch_all_routes_from_db(flights)
    /\ graph' = build_graph(fetch_all_routes_from_db(flights))
    /\ spc' = "built"
    /\ UNCHANGED <<origin, destination, queue, visited, found, stack>>
    /\ UNCHANGED fareVars
    /\ UNCHANGED bookingVars
    /\ UNCHANGED <<trieVars, appVars>>

\* find_cheapest_route(graph, origin, destination, max_stops); the fare
\* lookups of the call find the datastore reachable, or none of them does
FindCheapest ==
    /\ spc = "built"
    /\ \E conn \in BOOLEAN :
        LET r == find_cheapest_route(graph, flights, origin, destination, max_stops, conn)
        IN  cheapest' = [route |-> r.route, price |-> r.price, conn |-> conn]
    /\ spc' = "done"
    /\ UNCHANGED <<routes, graph, origin, destination, queue, visited, found, stack>>
    /\ UNCHANGED <<flights, route, details, max_stops>>
    /\ UNCHANGED bookingVars
    /\ UNCHANGED <<trieVars, appVars>>

NextCheapest == LoadData \/ FindCheapest

SpecCheapest == InitCheapest /\ [][NextCheapest]_vars

\* ---------------------------------------------------------------- Trie
\* a word is the sequence of its characters
Chars == {"a", "b"}
Words == SeqsUpTo(Chars, 2) \ {<<>>}
Prefixes == SeqsUpTo(Chars, 3)

\* char in node.children
HasChild(node, char) == \E i \in 1..Len(node.children) : node.children[i] = char

\* Trie.insert from character i of word on; the node reached so far is the
\* one keyed by the first i - 1 characters
RECURSIVE InsertFrom(_, _, _)
InsertFrom(t, word, i) ==
    LET key == SubSeq(word, 1, i - 1)
    IN  IF i > Len(word)
        THEN [t EXCEPT ![key].is_end_of_word = TRUE, ![key].word = word]
        ELSE IF HasChild(t[key], word[i])
             THEN InsertFrom(t, word, i + 1)
             ELSE InsertFrom([t EXCEPT ![key].children = Append(@, word[i])]
                                @@ (Append(key, word[i]) :> TrieNode),
                             word, i + 1)

insert(t, word) == InsertFrom(t, word, 1)

\* mutant of AppendWord: the word of every visited node is appended
AppendWordOfAnyNode(node, out) == Append(out, node.word)

\* if node.is_end_of_word: suggestions.append(node.word)
AppendWord(node, out) == IF node.is_end_of_word THEN Append(out, node.word) ELSE out

\* Trie._collect_all_words(node, suggestions) on the node keyed by key, and
\* its loop over node.children.values(); both return the list
RECURSIVE CollectAllWords(_, _, _)
RECURSIVE CollectChildren(_, _, _, _)
CollectAllWords(t, key, out) ==
    CollectChildren(t, key, t[key].children, AppendWord(t[key], out))

CollectChildren(t, key, chars, out) ==
    IF chars = <<>> THEN out
    ELSE CollectChildren(t, key, Tail(chars),
                         CollectAllWords(t, Append(key, Head(chars)), out))

\* the first loop of get_suggestions from character i of pre on, then the
\* collection
RECURSIVE SuggestFrom(_, _, _)
SuggestFrom(t, pre, i) ==
    LET key == SubSeq(pre, 1, i - 1)
    IN  IF i > Len(pre) THEN CollectAllWords(t, key, <<>>)
        ELSE IF ~HasChild(t[key], pre[i]) THEN <<>>
             ELSE SuggestFrom(t, pre, i + 1)

get_suggestions(t, pre) == SuggestFrom(t, pre, 1)

InitTrie ==
    /\ BookingIdle /\ SearchIdle /\ FareIdle /\ TrieIdle /\ AppIdle

\* build_airport_trie: trie.insert(airport), before any suggestion is asked
TrieInsert ==
    /\ spc = "off"
    /\ Len(inserted) < MaxInserts
    /\ \E w \in Words :
        /\ trie' = insert(trie, w)
        /\ inserted' = Append(inserted, w)
    /\ UNCHANGED <<prefix, suggestions>>
    /\ UNCHANGED searchVars
    /\ UNCHANGED <<stack, fareVars, appVars>>
    /\ UNCHANGED bookingVars

\* trie.get_suggestions(prefix)
GetSuggestions ==
    /\ spc = "off"
    /\ \E pre \in Prefixes :
        /\ prefix' = pre
        /\ suggestions' = get_suggestions(trie, pre)
    /\ spc' = "asked"
    /\ UNCHANGED <<trie, inserted>>
    /\ UNCHANGED <<routes, graph, origin, destination, queue, visited, found>>
    /\ UNCHANGED <<stack, fareVars, appVars>>
    /\ UNCHANGED bookingVars

NextTrie == TrieInsert \/ GetSuggestions

SpecTrie == InitTrie /\ [][NextTrie]_vars

\* ------------------------------------------------- the app's booking flow

\* the flights table with its primary key: row i has flight_id i
Numbered(tbl) == [i \in 1..Len(tbl) |-> [flight_id |-> i] @@ tbl[i]]

\* SELECT * FROM flights WHERE origin = o AND destination = d AND available_seats > 0
RECURSIVE DirectRows(_, _, _)
DirectRows(tbl, o, d) ==
    IF tbl = <<>> THEN <<>>
    ELSE IF /\ Head(tbl).origin = o /\ Head(tbl).destination = d
            /\ Head(tbl).available_seats > 0
         THEN <<Head(tbl)>> \o DirectRows(Tail(tbl), o, d)
         ELSE DirectRows(Tail(tbl), o, d)

get_direct_flights_from_db(tbl, o, d, conn) ==
    IF ~conn THEN <<>> ELSE DirectRows(tbl, o, d)

\* the while loop of bfs_shortest_path, run to its return
RECURSIVE BfsLoop(_, _, _, _)
BfsLoop(g, d, q, vis) ==
    IF q = <<>> THEN None
    ELSE LET path == Head(q)
             node == path[Len(path)]
         IN  IF node = d THEN path
             ELSE LET r == BfsExpand(Neighbors(g, node), vis, Tail(q), path)
                  IN  BfsLoop(g, d, r.queue, r.visited)

bfs_shortest_path(g, o, d) ==
    IF o \notin DOMAIN g \/ d \notin DOMAIN g THEN None
    ELSE BfsLoop(g, d, << <<o>> >>, {o})

\* the while loop of dfs_find_a_path, run to its return
RECURSIVE DfsLoop(_, _, _, _)
DfsLoop(g, d, st, vis) ==
    IF st = <<>> THEN None
    ELSE LET top  == st[Len(st)]
             rest == SubSeq(st, 1, Len(st) - 1)
         IN  IF top.node = d THEN top.path
             ELSE DfsLoop(g, d,
                          DfsPush(Reversed(Neighbors(g, top.node)),
                                  vis \cup {top.node}, rest, top.path),
                          vis \cup {top.node})

dfs_find_a_path(g, o, d) ==
    IF o \notin DOMAIN g \/ d \notin DOMAIN g THEN None
    ELSE DfsLoop(g, d, << [node |-> o, path |-> <<o>>] >>, {})

\* st.selectbox("Travel Purpose", ...)
Purposes == {"Business", "Tourism", "Family Visit", "Education"}

\* the purpose-based route of the search handler
PurposeRoute(g, tbl, o, d, purpose, conn) ==
    IF purpose \in {"Business", "Family Visit"}
    THEN bfs_shortest_path(g, o, d)
    ELSE LET r == find_cheapest_route(g, tbl, o, d, DefaultMaxStops, conn).route
         IN  IF r # None THEN r ELSE dfs_find_a_path(g, o, d)

\* the flights table of a session: numbered rows in primary-key order; the
\* session has loaded nothing yet
InitPrice ==
    /\ BookingIdle /\ TrieIdle /\ AppIdle
    /\ routes = <<>> /\ graph = <<>> /\ queue = <<>> /\ visited = {}
    /\ found = None /\ stack = <<>>
    /\ spc = "start"
    /\ origin = "A"
    /\ destination = "A"
    /\ \E tbl \in FareTables(MaxFlightRows) : flights = Numbered(tbl)
    /\ route = <<>>
    /\ details = NoDetails
    /\ max_stops = DefaultMaxStops
    /\ cheapest = NoCheapest

\* the "Search Flights" button with two different airports selected: "A" and
\* "B" (the flights tables are closed under renaming the airports)
SearchFlights ==
    /\ spc = "built"
    /\ \E o \in {"A"}, d \in {"B"}, purpose \in Purposes, conn \in BOOLEAN :
        /\ o # d
        /\ origin' = o
        /\ destination' = d
        /\ LET df_direct == get_direct_flights_from_db(flights, o, d, conn)
               rt        == PurposeRoute(graph, flights, o, d, purpose, conn)
               det       == get_flight_details_for_route(flights, rt, conn)
           IN  search_results' =
                   [direct |-> IF df_direct # <<>> THEN <<df_direct[1]>> ELSE <<>>,
                    connecting |->
                        IF Len(rt) > 2 /\ det.ok
                        THEN << [route |-> rt, flights |-> det.flights,
                                 total_price |-> det.total] >>
                        ELSE <<>>]
    /\ UNCHANGED <<selected_route, selected_route_flight_ids, passengers, bookings>>
    /\ UNCHANGED <<routes, graph, spc, queue, visited, found, stack>>
    /\ UNCHANGED fareVars
    /\ UNCHANGED bookingVars
    /\ UNCHANGED trieVars

\* [int(f['flight_id']) for f in flights]
FlightIdsOf(fs) == [i \in 1..Len(fs) |-> fs[i].flight_id]

\* the "Book Direct Flight" button
BookDirect ==
    /\ search_results.direct # <<>>
    /\ LET d == search_results.direct[1]
       IN  /\ selected_route_flight_ids' = <<d.flight_id>>
           /\ selected_route' = <<d.origin, d.destination>>
    /\ UNCHANGED <<search_results, passengers, bookings>>
    /\ UNCHANGED searchVars
    /\ UNCHANGED <<stack, fareVars, trieVars>>
    /\ UNCHANGED bookingVars

\* the "Book Connecting Route" button
BookConnecting ==
    /\ search_results.connecting # <<>>
    /\ LET c == search_results.connecting[1]
       IN  /\ selected_route' = c.route
           /\ selected_route_flight_ids' = FlightIdsOf(c.flights)
    /\ UNCHANGED <<search_results, passengers, bookings>>
    /\ UNCHANGED searchVars
    /\ UNCHANGED <<stack, fareVars, trieVars>>
    /\ UNCHANGED bookingVars

\* the "Add Passenger" form of the booking flow
AddPassenger ==
    /\ selected_route # <<>>
    /\ passengers < MaxPax
    /\ passengers' = passengers + 1
    /\ UNCHANGED <<search_results, selected_route, selected_route_flight_ids, bookings>>
    /\ UNCHANGED searchVars
    /\ UNCHANGED <<stack, fareVars, trieVars>>
    /\ UNCHANGED bookingVars

\* the first loop of save_booking over flight_ids, on the numbered flights
\* table: every flight exists and has num_pax seats
SeatsEnough(tbl, fids, num_pax) ==
    \A i \in 1..Len(fids) :
        fids[i] \in 1..Len(tbl) /\ tbl[fids[i]].available_seats >= num_pax

\* the second loop of save_booking: available_seats = available_seats - num_pax
RECURSIVE DeductSeats(_, _, _)
DeductSeats(tbl, fids, num_pax) ==
    IF fids = <<>> THEN tbl
    ELSE DeductSeats([tbl EXCEPT ![Head(fids)].available_seats = @ - num_pax],
                     Tail(fids), num_pax)

\* another session's save_booking commits one passenger on one flight
OtherSessionBooks ==
    /\ spc = "built"
    /\ \E fid \in 1..Len(flights) :
        /\ SeatsEnough(flights, <<fid>>, 1)
        /\ flights' = DeductSeats(flights, <<fid>>, 1)
    /\ UNCHANGED <<route, details, max_stops, cheapest>>
    /\ UNCHANGED searchVars
    /\ UNCHANGED <<stack, trieVars, appVars>>
    /\ UNCHANGED bookingVars

\* the "Confirm Booking" button with contact details and at least one
\* passenger entered: the rerun resolves the price of selected_route, then
\* save_booking(user_details, passengers, flight_ids, final_total) runs
ConfirmBooking ==
    /\ selected_route # <<>>
    /\ passengers > 0
    /\ \E conn \in BOOLEAN :
        LET total_price_per_passenger ==
                get_flight_details_for_route(flights, selected_route, conn).total
            final_total == total_price_per_passenger * passengers
        IN  IF SeatsEnough(flights, selected_route_flight_ids, passengers)
            THEN /\ flights' = DeductSeats(flights, selected_route_flight_ids, passengers)
                 /\ bookings' = Append(bookings,
                        [total_price |-> final_total,
                         flight_ids |-> selected_route_flight_ids,
                         num_pax |-> passengers])
            ELSE UNCHANGED <<flights, bookings>>
    /\ UNCHANGED <<search_results, selected_route, selected_route_flight_ids, passengers>>
    /\ UNCHANGED <<route, details, max_stops, cheapest>>
    /\ UNCHANGED searchVars
    /\ UNCHANGED <<stack, trieVars>>
    /\ UNCHANGED bookingVars

NextPrice ==
    \/ LoadData
    \/ SearchFlights
    \/ BookDirect
    \/ BookConnecting
    \/ AddPassenger
    \/ OtherSessionBooks
    \/ ConfirmBooking

SpecPrice == InitPrice /\ [][NextPrice]_vars

\* ------------------------------------------------- termination of the searches

\* one fare per edge of the graph: the i-th neighbour of o costs i
FaresFrom(g, o) ==
    [i \in 1..Len(Neighbors(g, o)) |->
        [origin |-> o, destination |-> Neighbors(g, o)[i],
         price |-> i, available_seats |-> 1]]

UnitFares(g) == FaresFrom(g, "A") \o FaresFrom(g, "B") \o FaresFrom(g, "C")

\* a search from "A" to any airport, "A" included, on any graph build_graph
\* can return (the graphs are closed under renaming the airports)
InitTerminate ==
    /\ BookingIdle /\ TrieIdle /\ AppIdle
    /\ routes = <<>>
    /\ graph \in {build_graph(rs) : rs \in SeqsUpTo(RoutePairs, MaxRoutes)}
    /\ origin = "A"
    /\ destination \in Airports
    /\ spc = "built"
    /\ queue = <<>>
    /\ visited = {}
    /\ found = None
    /\ stack = <<>>
    /\ flights = UnitFares(graph)
    /\ route = <<>>
    /\ details = NoDetails
    /\ max_stops = DefaultMaxStops
    /\ cheapest = NoCheapest

\* a call dfs(node, path) of find_cheapest_route that has not run yet; node is
\* path[-1], nbrs is what its for loop has still to visit
Call(path) == [path |-> path, nbrs |-> <<>>, fresh |-> TRUE]

\* find_cheapest_route up to the first call of the nested dfs
CheapStart ==
    /\ spc = "built"
    /\ \E ms \in StopsChoices : max_stops' = ms
    /\ cheapest' = NoCheapest
    /\ IF origin \notin DOMAIN graph \/ destination \notin DOMAIN graph
       THEN /\ spc' = "done"
            /\ UNCHANGED stack
       ELSE /\ stack' = << Call(<<origin>>) >>
            /\ spc' = "cheap"
    /\ UNCHANGED <<routes, graph, origin, destination, queue, visited, found>>
    /\ UNCHANGED <<flights, route, details>>
    /\ UNCHANGED bookingVars
    /\ UNCHANGED <<trieVars, appVars>>

\* one step of the nested dfs of find_cheapest_route: the innermost call
\* starts, or its for loop takes the next neighbour, or it returns; with no
\* call left find_cheapest_route returns
CheapStep ==
    /\ spc = "cheap"
    /\ IF stack = <<>>
       THEN /\ spc' = "done"
            /\ UNCHANGED <<stack, cheapest>>
       ELSE LET top  == stack[Len(stack)]
                path == top.path
                node == path[Len(path)]
                rest == SubSeq(stack, 1, Len(stack) - 1)
            IN  /\ UNCHANGED spc
                /\ IF top.fresh
                   THEN IF ~WithinStops(path, max_stops)
                        THEN /\ stack' = rest
                             /\ UNCHANGED cheapest
                        ELSE IF node = destination
                        THEN /\ stack' = rest
                             /\ \E conn \in BOOLEAN :
                                 LET d == get_flight_details_for_route(flights, path, conn)
                                 IN  cheapest' =
                                         IF d.ok /\ Better(d.total, cheapest)
                                         THEN [route |-> path, price |-> d.total,
                                               conn |-> TRUE]
                                         ELSE cheapest
                        ELSE /\ stack' = Append(rest,
                                    [path |-> path, nbrs |-> Neighbors(graph, node),
                                     fresh |-> FALSE])
                             /\ UNCHANGED cheapest
                   ELSE /\ UNCHANGED cheapest
                        /\ IF top.nbrs = <<>>
                           THEN stack' = rest
                           ELSE LET nb   == Head(top.nbrs)
                                    cont == [top EXCEPT !.nbrs = Tail(top.nbrs)]
                                IN  stack' =
                                        IF \A i \in 1..Len(path) : path[i] # nb
                                        THEN Append(Append(rest, cont),
                                                    Call(Append(path, nb)))
                                        ELSE Append(rest, cont)
    /\ UNCHANGED <<routes, graph, origin, destination, queue, visited, found>>
    /\ UNCHANGED <<flights, route, details, max_stops>>
    /\ UNCHANGED bookingVars
    /\ UNCHANGED <<trieVars, appVars>>

NextTerminate ==
    \/ BfsStart
    \/ BfsStep
    \/ DfsStart
    \/ DfsStep
    \/ CheapStart
    \/ CheapStep

\* a call that has started keeps executing: its next step is taken
SpecTerminate == InitTerminate /\ [][NextTerminate]_vars /\ WF_vars(NextTerminate)

\* ---------------------------------------------------- claim vocabulary
\* p returns from save_booking in this step
SaveReturns(p) == pc[p] \in SavePcs /\ pc'[p] = "idle"

\* p returns from cancel_booking_in_db in this step
CancelReturns(p) == pc[p] \in CancelPcs /\ pc'[p] = "idle"

\* a call fails at get_db_connection() in this step
ConnFails(p) ==
    /\ pc[p] = "idle" /\ pc' = pc
    /\ ncalls' = ncalls + 1
    /\ failedAt'[p] = "connect"

Failure(r) == r \in {SaveFail("DB failed"), SaveFail("DB Error"), CancelRet(FALSE)}

\* seats of flight f held by bookings that are CONFIRMED
ConfirmedSeats(f) ==
    LET held_rows == {i \in 1..Len(db.bf) :
                        /\ db.bf[i].flight_id = f
                        /\ db.status[db.bf[i].booking_id] = "CONFIRMED"}
        nums == [i \in 1..Len(db.bf) |->
                    IF i \in held_rows THEN db.bf[i].num_passengers ELSE 0]
    IN  SumSeq(nums)

\* rows of booking b on flight f in a booking_flights table
RowsOf(bf, b, f) == {i \in 1..Len(bf) : bf[i].booking_id = b /\ bf[i].flight_id = f}

\* ---------------------------------------------------------------- C1
\* C1: in every reachable state every flight's available_seats is >= 0.
C1_SeatsNeverNegative == \A f \in Flights : db.seats[f] >= 0

\* ---------------------------------------------------------------- C2
RacePre(p, q, f) ==
    /\ p # q
    /\ req[p] # NoArgs /\ req[q] # NoArgs
    /\ req[p].fids = <<f>> /\ req[q].fids = <<f>>
    /\ req[p].npax <= seats0[f] /\ req[q].npax <= seats0[f]
    /\ req[p].npax + req[q].npax > seats0[f]
    /\ pc[p] = "idle" /\ pc[q] = "idle"

\* C2: two save_booking calls on one flight with N seats, k1 <= N, k2 <= N,
\* k1 + k2 > N: once both have returned, exactly one has a booking id, the
\* other has a null id and "Not enough seats", and the flight has N - k_winner.
C2_ExactlyOneWins ==
    \A p \in Procs, q \in Procs, f \in Flights :
        RacePre(p, q, f) =>
            \E w \in {p, q} :
                LET l == CHOOSE x \in {p, q} : x # w
                IN  /\ ret[w].id # NoId
                    /\ ret[l] = SaveFail("Not enough seats")
                    /\ db.seats[f] = seats0[f] - req[w].npax

C2_Witness ==
    \E p \in Procs, q \in Procs, f \in Flights :
        /\ RacePre(p, q, f)
        /\ ret[p].id # NoId
        /\ ret[q] = SaveFail("Not enough seats")

\* ---------------------------------------------------------------- C3
Insufficient(p) ==
    \E i \in 1..Len(args[p].fids) :
        /\ args[p].fids[i] \in Flights
        /\ db.seats[args[p].fids[i]] < args[p].npax

\* C3: a save_booking call that returns while a flight of flight_ids has
\* fewer seats than passengers returns a null id and leaves every table as
\* it was.
C3_InsufficientSeatsNoEffect ==
    [][\A p \in Procs :
        (SaveReturns(p) /\ Insufficient(p)) =>
            (ret'[p].id = NoId /\ db' = db)]_vars

C3_Witness ==
    \E p \in Procs :
        /\ ret[p] = SaveFail("Not enough seats")
        /\ db.bf # <<>>
        /\ \E f \in Flights : db.seats[f] < MaxPax /\ db.seats[f] < seats0[f]

\* ---------------------------------------------------------------- C4
\* C4: when save_booking returns a booking id, each referenced flight has
\* lost exactly the number of passengers, the booking is CONFIRMED, and each
\* referenced flight has one booking_flights row with that number.
C4_BookingTakesSeatsOnce ==
    [][\A p \in Procs :
        (SaveReturns(p) /\ ret'[p].id # NoId) =>
            LET b == ret'[p].id
                n == args[p].npax
                referenced == {args[p].fids[i] : i \in 1..Len(args[p].fids)}
            IN  /\ db'.status[b] = "CONFIRMED"
                /\ \A f \in referenced :
                    /\ db'.seats[f] = db.seats[f] - n
                    /\ Cardinality(RowsOf(db'.bf, b, f)) = 1
                    /\ \A i \in RowsOf(db'.bf, b, f) : db'.bf[i].num_passengers = n]_vars

\* ---------------------------------------------------------------- C5
\* C5: the cancellation of a CONFIRMED booking made by an earlier save_booking
\* gives every flight exactly the seats that booking took, and the booking
\* becomes CANCELLED.
C5_CancelRestoresSeats ==
    [][\A p \in Procs :
        (/\ CancelReturns(p)
         /\ ret'[p] = CancelRet(TRUE)
         /\ db.status[args[p].bid] = "CONFIRMED") =>
            /\ \A f \in Flights : db'.seats[f] = db.seats[f] + ded[args[p].bid][f]
            /\ db'.status[args[p].bid] = "CANCELLED"]_vars

C5_Witness ==
    \E p \in Procs, b \in BookingIds, f \in Flights :
        /\ ret[p] = CancelRet(TRUE)
        /\ db.status[b] = "CANCELLED"
        /\ ded[b][f] > 0
        /\ db.seats = seats0

\* ---------------------------------------------------------------- C6
\* C6: every flight's available_seats equals its initial seats minus the
\* num_passengers of its booking_flights rows whose booking is CONFIRMED.
C6_SeatsMatchConfirmed ==
    \A f \in Flights : db.seats[f] = seats0[f] - ConfirmedSeats(f)

\* ---------------------------------------------------------------- C7
\* C7: cancel_booking_in_db called on a booking that is already CANCELLED
\* changes no flight's available_seats.
C7_RecancelCreditsNothing ==
    [][\A p \in Procs :
        (CancelReturns(p) /\ args[p].was = "CANCELLED") =>
            db'.seats = db.seats]_vars

\* ---------------------------------------------------------------- C8
\* C8: two concurrent save_booking calls never reach a state where each
\* holds a row lock the other is waiting for.
C8_NoCircularWait ==
    ~ \E p \in Procs, q \in Procs : WaitsFor(p, q) /\ WaitsFor(q, p)

\* ---------------------------------------------------------------- C9
\* C9: a save_booking or cancel_booking_in_db call that fails on the
\* datastore returns a failure and leaves every table as it was.
C9_FailureLeavesTablesUnchanged ==
    [][\A p \in Procs :
        (\/ ConnFails(p)
         \/ (SaveReturns(p) \/ CancelReturns(p)) /\ failedAt'[p] # "none") =>
            (Failure(ret'[p]) /\ db' = db /\ tx'[p] = EmptyTx /\ held'[p] = {})]_vars

C9_Witness ==
    \E p \in Procs : failedAt[p] = "dirty" /\ Failure(ret[p])

\* --------------------------------------------------------------- C10
Edges == {routes[i] : i \in 1..Len(routes)}

\* airports reachable from origin along at most k route edges
RECURSIVE Within(_)
Within(k) ==
    IF k = 0 THEN {origin}
    ELSE LET S == Within(k - 1)
         IN  S \cup {e[2] : e \in {x \in Edges : x[1] \in S}}

Reachable == destination \in Within(Cardinality(Airports))

MinEdges == CHOOSE k \in 0..Cardinality(Airports) :
                /\ destination \in Within(k)
                /\ (k = 0 \/ destination \notin Within(k - 1))

IsRoutePath(path) ==
    /\ Len(path) >= 1
    /\ path[1] = origin
    /\ path[Len(path)] = destination
    /\ \A i \in 1..(Len(path) - 1) : <<path[i], path[i + 1]>> \in Edges

\* C10: when destination is reachable from origin along route edges,
\* bfs_shortest_path returns a path from origin to destination with the
\* minimum number of edges.
C10_BfsFindsShortest ==
    (spc = "done" /\ Reachable) =>
        (found # None /\ IsRoutePath(found) /\ Len(found) - 1 = MinEdges)

\* --------------------------------------------------------------- C11
\* C11: dfs_find_a_path returns None if and only if destination is not
\* reachable from origin along route edges.
C11_DfsNoneIffUnreachable ==
    spc = "done" => ((found = None) <=> ~Reachable)

\* --------------------------------------------------------------- C12
\* C12: a path returned by dfs_find_a_path starts at origin, ends at
\* destination, and every consecutive pair of it is an edge of the graph.
C12_DfsPathIsValid ==
    (spc = "done" /\ found # None) => IsRoutePath(found)

C12_Witness ==
    /\ spc = "done"
    /\ found # None
    /\ Len(found) = 3

\* --------------------------------------------------------------- C15
\* the flights table holds a flight from o to d with available_seats > 0
HasAvailableFlight(o, d) ==
    \E i \in 1..Len(flights) :
        /\ flights[i].origin = o
        /\ flights[i].destination = d
        /\ flights[i].available_seats > 0

EveryLegAvailable(r) ==
    \A i \in 1..(Len(r) - 1) : HasAvailableFlight(r[i], r[i + 1])

\* C15: with a connection, get_flight_details_for_route reports ok = True
\* if and only if every consecutive pair of the route has a flight with
\* available_seats > 0, and every leg it returns has available_seats > 0.
C15_OkIffEveryLegAvailable ==
    spc = "done" =>
        /\ details.ok <=> EveryLegAvailable(route)
        /\ \A i \in 1..Len(details.flights) : details.flights[i].available_seats > 0

\* --------------------------------------------------------------- C16
\* C16: whenever get_flight_details_for_route reports ok = False, the
\* returned leg list is empty and the returned total is 0.
C16_FailureReturnsNothing ==
    (spc \in {"done", "down"} /\ ~details.ok) =>
        (details.flights = <<>> /\ details.total = 0)

\* --------------------------------------------------------------- C13
\* simple paths from origin to destination along graph edges
SimplePaths ==
    {q \in SeqsUpTo(Airports \cup {"D"}, 4) :
        /\ Len(q) >= 2
        /\ q[1] = origin
        /\ q[Len(q)] = destination
        /\ \A i \in 1..Len(q), j \in 1..Len(q) : i # j => q[i] # q[j]
        /\ \A i \in 1..(Len(q) - 1) :
              \E k \in 1..Len(Neighbors(graph, q[i])) : Neighbors(graph, q[i])[k] = q[i + 1]}

\* the simple paths within the hop bound whose legs all resolve
Candidates ==
    {q \in SimplePaths :
        /\ Len(q) - 1 <= max_stops
        /\ get_flight_details_for_route(flights, q, TRUE).ok}

\* C13: with the datastore reachable, find_cheapest_route returns a candidate
\* path of minimum total price together with that total, and no path only
\* when there is no candidate.
C13_CheapestIsMinimum ==
    (spc = "done" /\ cheapest.conn) =>
        IF Candidates = {}
        THEN cheapest.route = None
        ELSE /\ cheapest.route \in Candidates
             /\ cheapest.price = get_flight_details_for_route(flights, cheapest.route, TRUE).total
             /\ \A q \in Candidates :
                    cheapest.price <= get_flight_details_for_route(flights, q, TRUE).total

\* --------------------------------------------------------------- C14
\* price of the first flight of the query result on each leg of r
LegPrices(r) ==
    [i \in 1..(Len(r) - 1) |-> FirstRow(LegRows(flights, r[i], r[i + 1])).price]

\* C14: a route returned by find_cheapest_route is a simple path of no more
\* than max_stops edges, and the returned price is the sum of the prices of
\* the legs resolved for it.
C14_CheapestRouteBounded ==
    (spc = "done" /\ cheapest.route # None) =>
        /\ \A i \in 1..Len(cheapest.route), j \in 1..Len(cheapest.route) :
              i # j => cheapest.route[i] # cheapest.route[j]
        /\ Len(cheapest.route) - 1 <= max_stops
        /\ cheapest.price = SumSeq(LegPrices(cheapest.route))

C14_Witness ==
    /\ spc = "done"
    /\ cheapest.route # None
    /\ Len(cheapest.route) = 3
    /\ cheapest.price = 3

\* --------------------------------------------------------------- C17
\* pre is a prefix of word
StartsWith(word, pre) == Len(pre) <= Len(word) /\ SubSeq(word, 1, Len(pre)) = pre

\* the inserted words that start with the prefix asked for
Matching == {w \in {inserted[i] : i \in 1..Len(inserted)} : StartsWith(w, prefix)}

\* C17: after any inserts, get_suggestions(prefix) returns exactly the
\* inserted words that start with prefix, each once.
C17_SuggestionsExact ==
    spc = "asked" =>
        /\ {suggestions[i] : i \in 1..Len(suggestions)} = Matching
        /\ Len(suggestions) = Cardinality(Matching)

C17_Witness ==
    /\ spc = "asked"
    /\ Len(suggestions) = 2
    /\ Len(prefix) = 1
    /\ \E i \in 1..Len(inserted), j \in 1..Len(inserted) : i # j /\ inserted[i] = inserted[j]

\* --------------------------------------------------------------- C18
\* p starts a get_user_bookings_from_db(e) call in this step
GetStarts(p, e) ==
    /\ req'[p] # req[p]
    /\ req'[p].op = "get"
    /\ req'[p].email = e

\* a cancel_booking_in_db call with user_email = e returns True in this step
CancelSucceedsFor(e) ==
    \E p \in Procs :
        /\ CancelReturns(p)
        /\ ret'[p] = CancelRet(TRUE)
        /\ args[p].email = e

\* C18: while booking_cache holds a list for email, a get call for email
\* returns that list with status "Cache" at once, without a query, and the
\* list held stays the same until a cancel for that email succeeds.
C18_CachedListServedUntilCancel ==
    [][\A e \in LookupEmails :
        e \in DOMAIN booking_cache =>
            /\ \A p \in Procs :
                  GetStarts(p, e) =>
                      (pc'[p] = "idle" /\ ret'[p] = GetRet(booking_cache[e], "Cache") /\ db' = db)
            /\ \/ CancelSucceedsFor(e)
               \/ (e \in DOMAIN booking_cache' /\ booking_cache'[e] = booking_cache[e])]_vars

\* --------------------------------------------------------------- C19
\* C19: when cancel_booking_in_db(booking_id, user_email) returns True,
\* booking_cache holds no entry for the owner of the booking.
C19_CancelInvalidatesOwner ==
    [][\A p \in Procs :
        (CancelReturns(p) /\ ret'[p] = CancelRet(TRUE)) =>
            db.owner[args[p].bid] \notin DOMAIN booking_cache']_vars

\* --------------------------------------------------------------- C20
\* the cache lists booking b of email e as CONFIRMED
ListedConfirmed(e, b) ==
    /\ e \in DOMAIN booking_cache
    /\ \E i \in 1..Len(booking_cache[e]) :
          /\ booking_cache[e][i].booking_id = b
          /\ booking_cache[e][i].status = "CONFIRMED"

\* C20: once a get_user_bookings_from_db(email) call and a successful
\* cancel_booking_in_db(booking_id, email) call for a booking of that user
\* have both returned, the cache does not list that booking as CONFIRMED.
C20_NoStaleConfirmedAfterCancel ==
    \A p \in Procs, q \in Procs :
        (/\ pc[p] = "idle" /\ pc[q] = "idle"
         /\ req[p].op = "get"
         /\ req[q].op = "cancel"
         /\ req[q].email = req[p].email
         /\ db.owner[req[q].bid] = req[q].email
         /\ ret[q] = CancelRet(TRUE)) =>
            ~ListedConfirmed(req[q].email, req[q].bid)

\* --------------------------------------------------------------- C21
\* C21: save_booking called with an empty passenger list returns a null
\* booking id, creates no bookings row and changes no flight.
C21_EmptyPassengerListRejected ==
    [][\A p \in Procs :
        (SaveReturns(p) /\ args[p].npax = 0) =>
            (ret'[p].id = NoId /\ db'.status = db.status /\ db'.seats = db.seats)]_vars

\* --------------------------------------------------------------- C22
\* C22: a bookings row appears only with status CONFIRMED and only in the
\* step in which save_booking returns its id; it never disappears; its
\* status changes only from CONFIRMED to CANCELLED, in a step in which a
\* cancel_booking_in_db call for it returns True.
C22_BookingLifecycle ==
    [][\A b \in BookingIds :
        /\ (db.status[b] = "NONE" /\ db'.status[b] # "NONE") =>
              /\ db'.status[b] = "CONFIRMED"
              /\ \E p \in Procs : SaveReturns(p) /\ ret'[p] = SaveOk(b)
        /\ db.status[b] # "NONE" => db'.status[b] # "NONE"
        /\ db.status[b] = "CANCELLED" => db'.status[b] = "CANCELLED"
        /\ (db.status[b] = "CONFIRMED" /\ db'.status[b] # "CONFIRMED") =>
              /\ db'.status[b] = "CANCELLED"
              /\ \E p \in Procs :
                    /\ CancelReturns(p)
                    /\ args[p].bid = b
                    /\ ret'[p] = CancelRet(TRUE)]_vars

C22_Witness ==
    \E b \in BookingIds, c \in BookingIds :
        /\ db.status[b] = "CANCELLED"
        /\ db.status[c] = "CONFIRMED"
        /\ b < c

\* --------------------------------------------------------------- C23
\* positions of the route list with origin o
FirstAppearances(o) ==
    {i \in 1..Len(routes) :
        /\ routes[i][1] = o
        /\ \A j \in 1..(i - 1) : routes[j] # routes[i]}

\* the destinations of o in the order of their first appearance in routes
RECURSIVE FirstAppearanceOrder(_, _)
FirstAppearanceOrder(o, i) ==
    IF i > Len(routes) THEN <<>>
    ELSE IF i \in FirstAppearances(o)
         THEN <<routes[i][2]>> \o FirstAppearanceOrder(o, i + 1)
         ELSE FirstAppearanceOrder(o, i + 1)

\* C23: in the graph build_graph returns, each origin's neighbour list holds
\* each destination at most once, in the order of first appearance.
C23_NeighboursDistinctInOrder ==
    spc # "start" =>
        \A o \in DOMAIN graph : graph[o] = FirstAppearanceOrder(o, 1)

\* --------------------------------------------------------------- C24
\* C24: save_booking returns the reason "Not enough seats" only when a
\* flight of flight_ids exists and has fewer available seats than there are
\* passengers.
C24_NotEnoughSeatsMeansCapacity ==
    [][\A p \in Procs :
        (SaveReturns(p) /\ ret'[p] = SaveFail("Not enough seats")) =>
            Insufficient(p)]_vars

\* --------------------------------------------------------------- C25
\* the sum of the prices of the flights with the given ids
RECURSIVE PriceOfFlights(_, _)
PriceOfFlights(tbl, fids) ==
    IF fids = <<>> THEN 0
    ELSE tbl[Head(fids)].price + PriceOfFlights(tbl, Tail(fids))

\* C25: the total_price stored on every booking created through Confirm
\* Booking is the number of passengers times the sum of the prices of exactly
\* the flights recorded for the booking.
C25_TotalPriceOfRecordedFlights ==
    \A i \in 1..Len(bookings) :
        bookings[i].total_price =
            bookings[i].num_pax * PriceOfFlights(flights, bookings[i].flight_ids)

\* --------------------------------------------------------------- C26
\* C26: on every graph of the bound, cycles and self-loops included, and for
\* every destination (the origin included), bfs_shortest_path, dfs_find_a_path
\* and find_cheapest_route return: eventually the call is over, with the
\* destination's path returned or the queue and the stack empty.
C26_SearchesTerminate ==
    <>(spc = "done" /\ (found # None \/ (queue = <<>> /\ stack = <<>>)))

\* a search over the cycle A -> B -> A for the unreachable C has ended
C26_Witness ==
    /\ spc = "done"
    /\ destination = "C"
    /\ graph = [A |-> <<"B">>, B |-> <<"A">>, C |-> <<"C">>]
    /\ visited = {"A", "B"}
    /\ found = None

====
